---- MODULE Spec2Model ----
(***************************************************************************)
(* KbM Nieuws (Streamlit): the feed pipeline of common.py.                 *)
(*                                                                         *)
(* State: the process-wide feed cache _FEED_CACHE, Streamlit's             *)
(* st.cache_data store behind kbm_ui._fetch_article_text, the wall clock,  *)
(* and one script run per session (Streamlit runs every session's script   *)
(* in a thread of its own, all sharing the module globals).                *)
(*                                                                         *)
(* Text is modelled by TLA+ strings and the operators below work on the    *)
(* characters, as str.strip, str.lower and "in" do.  Time is in seconds.   *)
(***************************************************************************)
EXTENDS Integers, Sequences, FiniteSets, TLC

VARIABLES
    clock,        \* time.time()
    env,          \* what surrounds the process and never changes in a run:
                  \*   tz        the host's UTC offset in seconds (time.mktime applies it)
                  \*   sessions  the sessions (script threads) that exist
                  \*   site      feed URL -> the entries the publisher may list
                  \*   args      the arguments the pages pass to collect_items
    feedCache,    \* _FEED_CACHE: a dict, url -> [t, d]
    artCache,     \* st.cache_data entries of _fetch_article_text: url -> [t, text]
    pc,           \* per session: where its script run is
    call,         \* per session: the locals of its running, or else its last, collect_items call
    ret,          \* per session: what the last collect_items call returned
    trace,        \* per session: what _fetch_feed or the scrape gave each label of that call (history)
    putAt,        \* url -> the time at which _fetch_feed last stored its entry (history)
    cleared,      \* the urls cached when the cache was cleared, and not stored since (history)
    refreshed,    \* per session: "Ververs nu" was pressed and the collect after it is running (history)
    shown,        \* per session: what the page it ran last computed to render
    artLog,       \* the requests sent for article pages: <<[url, t, by]>> (history)
    kbm_ok        \* per session: st.session_state.kbm_ok, None while the key is not set

vars == <<clock, env, feedCache, artCache, pc, call, ret, trace,
          putAt, cleared, refreshed, shown, artLog, kbm_ok>>

(***************************************************************************)
(* Bounds of the model.                                                    *)
(***************************************************************************)
TimeStep == 90        \* the clock advances in steps of this many seconds
MaxTime == 180        \* the clock stops advancing here
MaxEntries == 2       \* a feed document lists at most this many entries
MaxLabels == 2        \* a collect_items call names at most this many labels
MaxPerFeedTop == 2    \* max_per_feed is drawn from 1..MaxPerFeedTop

(***************************************************************************)
(* Program constants.                                                      *)
(***************************************************************************)
_CACHE_TTL == 180
ARTICLE_TTL == 1800
RTL_MIN_TITLE == 12

Threads == {"s1", "s2"}

None == <<>>
Some(v) == <<v>>

EmptyDict == [k \in {} |-> None]

DictPut(d, k, v) == [x \in (DOMAIN d) \cup {k} |-> IF x = k THEN v ELSE d[x]]

(***************************************************************************)
(* Strings.                                                                *)
(***************************************************************************)
Char(s, i) == SubSeq(s, i, i)

IsSpace(c) == c \in {" ", "\t", "\n"}

RECURSIVE LStrip(_)
LStrip(s) == IF Len(s) > 0 /\ IsSpace(Char(s, 1)) THEN LStrip(Tail(s)) ELSE s

RECURSIVE RStrip(_)
RStrip(s) ==
    IF Len(s) > 0 /\ IsSpace(Char(s, Len(s)))
    THEN RStrip(SubSeq(s, 1, Len(s) - 1))
    ELSE s

\* str.strip()
Strip(s) == RStrip(LStrip(s))

\* sub in s
Contains(s, sub) ==
    \E i \in 1..(Len(s) - Len(sub) + 1) : SubSeq(s, i, i + Len(sub) - 1) = sub

StartsWith(s, pre) == Len(s) >= Len(pre) /\ SubSeq(s, 1, Len(pre)) = pre

UpperChars == "ABCDEFGHIJKLMNOPQRSTUVWXYZ"
LowerChars == "abcdefghijklmnopqrstuvwxyz"

LowerMap ==
    [c \in {Char(UpperChars, i) : i \in 1..Len(UpperChars)} |->
        Char(LowerChars, CHOOSE i \in 1..Len(UpperChars) : Char(UpperChars, i) = c)]

LowerChar(c) == IF c \in DOMAIN LowerMap THEN LowerMap[c] ELSE c

\* str.lower()
RECURSIVE Lower(_)
Lower(s) == IF Len(s) = 0 THEN s ELSE LowerChar(Char(s, 1)) \o Lower(Tail(s))

\* re.sub(r"\s+", " ", s): a character that is no space stays, the first
\* space of a run becomes one blank and the rest of the run goes.  The text
\* is built by halves, so that long texts need no deep recursion.
RECURSIVE CollapseRange(_, _, _)
CollapseRange(s, lo, hi) ==
    IF lo > hi THEN ""
    ELSE IF lo = hi
         THEN IF ~IsSpace(Char(s, lo)) THEN Char(s, lo)
              ELSE IF lo = 1 \/ ~IsSpace(Char(s, lo - 1)) THEN " " ELSE ""
         ELSE CollapseRange(s, lo, (lo + hi) \div 2)
                  \o CollapseRange(s, (lo + hi) \div 2 + 1, hi)

CollapseWs(s) == CollapseRange(s, 1, Len(s))

(***************************************************************************)
(* The feed registry (the labels the model draws from) and the feeds.      *)
(***************************************************************************)
FEEDS ==
    [l \in {"nos_binnenland", "nos_buitenland", "nu_algemeen", "rtl_nieuws"} |->
        CASE l = "nos_binnenland" -> "https://feeds.nos.nl/nosnieuwsbinnenland"
          [] l = "nos_buitenland" -> "https://feeds.nos.nl/nosnieuwsbuitenland"
          [] l = "nu_algemeen" -> "https://www.nu.nl/rss/Algemeen"
          [] l = "rtl_nieuws" -> "RTL_DIRECT_NEWS"]

\* A label a caller may pass that FEEDS does not hold.
UnknownLabel == "onbekend"

NosUrl == FEEDS["nos_binnenland"]
NosBuitenlandUrl == FEEDS["nos_buitenland"]
NuUrl == FEEDS["nu_algemeen"]
RtlMarker == FEEDS["rtl_nieuws"]

FeedUrls == {NosUrl, NosBuitenlandUrl, NuUrl}

SiteUrls == FeedUrls \cup {RtlMarker}

StartTime == 36000    \* the clock's value when the process starts

\* feedparser entries.  A key the feed omitted is absent from the record;
\* published_parsed and updated_parsed are the instant (seconds since the
\* epoch, UTC) that feedparser's UTC struct_time denotes.
eStorm ==
    [title |-> "Storm raakt kustregio", link |-> "https://nos.nl/artikel/1",
     published_parsed |-> StartTime, summary |-> "Code oranje aan zee"]
eArchief ==
    [title |-> " Uit het archief ", link |-> " https://nos.nl/artikel/2",
     published_parsed |-> 0, summary |-> ""]
eLiveblog ==
    [title |-> "Liveblog verkiezingen",
     link |-> "https://nos.nl/liveblog/3?utm_source=rss&utm_medium=feed",
     updated_parsed |-> StartTime - 3600]
eBlank ==
    [title |-> "  \n ", link |-> "https://www.nu.nl/4",
     published_parsed |-> StartTime - 7200]
eNoLink ==
    [title |-> "Bericht zonder link", published_parsed |-> StartTime - 10800,
     summary |-> "storm verwacht"]

NosEntries == {eStorm, eArchief, eLiveblog}
NuEntries == {eStorm, eBlank, eNoLink}

\* The feed documents over a set of entries: no entry listed twice, at most
\* MaxEntries entries.  feedparser.parse(b"") is the document without entries.
EmptyDoc == <<>>

IsInjective(s) == \A i, j \in 1..Len(s) : s[i] = s[j] => i = j

SeqsUpTo(S, n) == UNION {[1..k -> S] : k \in 0..n}

Docs(S) == {d \in SeqsUpTo(S, MaxEntries) : IsInjective(d)}

\* entry.get(key) or ""
StrField(entry, key) == IF key \in DOMAIN entry THEN entry[key] ELSE ""

\* time.mktime(struct_time): reads the fields as local time.
Mktime(st) == st - env.tz

\* common.py 449-454
EntryDt(entry) ==
    IF "published_parsed" \in DOMAIN entry
    THEN Some(Mktime(entry.published_parsed))
    ELSE None

\* common.py 456-460
EntrySummary(entry) ==
    LET summary ==
            Strip(IF StrField(entry, "summary") # ""
                  THEN StrField(entry, "summary")
                  ELSE StrField(entry, "description"))
    IN  IF summary # "" THEN summary ELSE Strip(StrField(entry, "content_value"))

\* EntryItems without the test of the link at line 446.
EntryItemsTitleOnly(entry, label) ==
    LET title == Strip(StrField(entry, "title"))
        link == Strip(StrField(entry, "link"))
    IN  IF title = ""
        THEN <<>>
        ELSE << [title |-> title,
                 link |-> link,
                 dt |-> EntryDt(entry),
                 rss_summary |-> EntrySummary(entry),
                 source_label |-> label] >>

\* common.py 444-469: the item of one entry, or no item.
EntryItems(entry, label) ==
    LET title == Strip(StrField(entry, "title"))
        link == Strip(StrField(entry, "link"))
    IN  IF title = "" \/ link = ""
        THEN <<>>
        ELSE << [title |-> title,
                 link |-> link,
                 dt |-> EntryDt(entry),
                 rss_summary |-> EntrySummary(entry),
                 source_label |-> label] >>

\* entries[:n]
Take(s, n) == SubSeq(s, 1, IF n < Len(s) THEN n ELSE Len(s))

RECURSIVE FlatMapEntries(_, _)
FlatMapEntries(entries, label) ==
    IF entries = <<>> THEN <<>>
    ELSE EntryItems(Head(entries), label) \o FlatMapEntries(Tail(entries), label)

\* FeedItems without the slice of line 443.
FeedItemsUncapped(d, label, max_per_feed) == FlatMapEntries(d, label)

\* common.py 443-469: the loop over (feed.entries or [])[:max_per_feed].
FeedItems(d, label, max_per_feed) == FlatMapEntries(Take(d, max_per_feed), label)

\* common.py 471-473
RECURSIVE SelectSeq2(_, _)
SelectSeq2(s, q) ==
    IF s = <<>> THEN <<>>
    ELSE (IF Contains(Lower(Head(s).title \o " " \o Head(s).rss_summary), q)
          THEN <<Head(s)>> ELSE <<>>) \o SelectSeq2(Tail(s), q)

\* QueryFilter without the lower() of line 472.
QueryFilterExact(items, query) ==
    IF query = "" THEN items ELSE SelectSeq2(items, query)

QueryFilter(items, query) ==
    IF query = "" THEN items ELSE SelectSeq2(items, Lower(query))

\* common.py 475: x.get("dt") or datetime(1970, 1, 1, tzinfo=timezone.utc)
SortKey(item) == IF item.dt = None THEN 0 ELSE item.dt[1]

\* A sort that puts an item before the items of its key already placed.
RECURSIVE InsertDescBeforeEqual(_, _)
InsertDescBeforeEqual(sorted, x) ==
    IF sorted = <<>> THEN <<x>>
    ELSE IF SortKey(Head(sorted)) > SortKey(x)
         THEN <<Head(sorted)>> \o InsertDescBeforeEqual(Tail(sorted), x)
         ELSE <<x>> \o sorted

\* list.sort(key=..., reverse=True): stable, equal keys keep their order.
RECURSIVE InsertDesc(_, _)
InsertDesc(sorted, x) ==
    IF sorted = <<>> THEN <<x>>
    ELSE IF SortKey(Head(sorted)) >= SortKey(x)
         THEN <<Head(sorted)>> \o InsertDesc(Tail(sorted), x)
         ELSE <<x>> \o sorted

RECURSIVE SortItems(_)
SortItems(items) ==
    IF items = <<>> THEN <<>>
    ELSE InsertDesc(SortItems(SubSeq(items, 1, Len(items) - 1)), items[Len(items)])

(***************************************************************************)
(* The RTL listing pages, scraped instead of fetched as a feed.            *)
(***************************************************************************)
aStorm ==
    [href |-> "/nieuws/binnenland/artikel/5/storm?utm_source=home",
     text |-> " Storm  treft\n de kust "]
aFoto ==
    [href |-> "//www.rtl.nl/boulevard/artikel/6", text |-> "Foto"]
aRoyals ==
    [href |-> "//www.rtl.nl/boulevard/artikel/6",
     text |-> "Royals op bezoek in Den Haag"]
aExtern ==
    [href |-> "https://example.com/nieuws/7", text |-> "Een bericht van elders"]

RtlAnchors == {aStorm, aFoto, aRoyals, aExtern}

\* common.py 366-371
_abs(href) ==
    IF href = "" THEN ""
    ELSE IF StartsWith(href, "//") THEN "https:" \o href
    ELSE href

\* common.py 384-386
AnchorHref(a) ==
    LET href == _abs(a.href)
    IN  IF StartsWith(href, "/") THEN "https://www.rtl.nl" \o href ELSE href

\* common.py 396-397
AnchorTitle(a) == Strip(CollapseWs(Strip(a.text)))

\* common.py 383-420: the loop over the anchors of the page.
RECURSIVE ScrapeLoop(_, _, _, _)
ScrapeLoop(anchors, out, seen, max_items) ==
    IF anchors = <<>> THEN out
    ELSE
        LET a == Head(anchors)
            href == AnchorHref(a)
            title == AnchorTitle(a)
            rest == Tail(anchors)
        IN  IF ~Contains(href, "rtl.nl") THEN ScrapeLoop(rest, out, seen, max_items)
            ELSE IF ~Contains(href, "/nieuws/") /\ ~Contains(href, "/boulevard/")
                 THEN ScrapeLoop(rest, out, seen, max_items)
            ELSE IF href \in seen THEN ScrapeLoop(rest, out, seen, max_items)
            ELSE IF Len(title) < RTL_MIN_TITLE
                 THEN ScrapeLoop(rest, out, seen \cup {href}, max_items)
            ELSE
                LET out2 == Append(out, [title |-> title,
                                         link |-> href,
                                         dt |-> None,
                                         rss_summary |-> "",
                                         source_label |-> "rtl_direct"])
                IN  IF Len(out2) >= max_items
                    THEN out2
                    ELSE ScrapeLoop(rest, out2, seen \cup {href}, max_items)

\* common.py 373-423: resp is the response (ok, and the anchors of its page),
\* or None when requests.get raised.
_scrape_rtl_listing(resp, max_items) ==
    IF resp = None THEN <<>>
    ELSE IF ~resp[1].ok THEN <<>>
    ELSE ScrapeLoop(resp[1].anchors, <<>>, {}, max_items)

(***************************************************************************)
(* _fetch_feed (common.py 350-364), in the pieces its two steps use: the   *)
(* cache lookup before the request, and what follows the request.          *)
(***************************************************************************)
\* 352-353: cached and (now - cached["t"] < _CACHE_TTL)
IsFresh(cached, now) == cached # None /\ now - cached[1].t < _CACHE_TTL

\* 352: cached = _FEED_CACHE.get(url)
CacheGet(cache, url) == IF url \in DOMAIN cache THEN Some(cache[url]) ELSE None

\* 356: stale = cached["d"] if cached else None
StaleOf(cached) == IF cached # None THEN Some(cached[1].d) ELSE None

\* 359-360: content = r.content if r.ok else b""; d = feedparser.parse(content)
ParsedDoc(resp) == IF resp.ok THEN resp.doc ELSE EmptyDoc

\* A line 361 that writes the time into the entry it finds and leaves the
\* entry's document for later.
StoreEntryTorn(cache, url, now, d) ==
    DictPut(cache, url,
            [t |-> now, d |-> IF url \in DOMAIN cache THEN cache[url].d ELSE d])

\* 361: _FEED_CACHE[url] = {"t": now, "d": d}
StoreEntry(cache, url, now, d) == DictPut(cache, url, [t |-> now, d |-> d])

\* What _fetch_feed hands to collect_items: a document, or an exception that
\* leaves the function.
Returned(d) == [raised |-> FALSE, d |-> d]

\* 354: return cached["d"]
HitResult(cached) == Returned(cached[1].d)

\* A line 364 that forgets the stale document.
FallbackForgetsStale(stale) == Returned(EmptyDoc)

\* An except clause that lets the exception go on to the caller.
FallbackReraises(stale) == [raised |-> TRUE, d |-> EmptyDoc]

\* 363-364: except Exception: return stale if stale is not None else parse(b"")
FallbackResult(stale) == Returned(IF stale # None THEN stale[1] ELSE EmptyDoc)

\* A clear_feed_caches that leaves the dictionary as it is.
ClearedFeedCacheKept(cache) == cache

\* 94-95: _FEED_CACHE.clear()
ClearedFeedCache(cache) == EmptyDict

\* app.py 112, pages/01_Binnenland.py 32: st.cache_data.clear(), as it acts on
\* the two caches <<feed cache, st.cache_data store>>.
AfterCacheDataClear(feed, art) == <<feed, EmptyDict>>

(***************************************************************************)
(* Sessions.                                                               *)
(***************************************************************************)
NoCall ==
    [feed_labels |-> <<>>, query |-> "", max_per_feed |-> 0, i |-> 0,
     items |-> <<>>, now |-> 0, cached |-> None]

NoRet == [status |-> "none", items |-> <<>>]

\* No page has run yet.
NoPage == [kind |-> "none"]

CurLabel(p) == call[p].feed_labels[call[p].i]

CurUrl(p) == FEEDS[CurLabel(p)]

InLoop(p) == pc[p] = "loop" /\ call[p].i <= Len(call[p].feed_labels)

\* The responses a feed URL may give: a success with a document of the site's
\* entries, or a non-success status.
Responses(url) ==
    {[ok |-> TRUE, doc |-> d] : d \in Docs(env.site[url])}
        \cup {[ok |-> FALSE, doc |-> EmptyDoc]}

\* The responses of an RTL listing page; None: requests.get raised.
RtlResponses ==
    {Some([ok |-> TRUE, anchors |-> a]) : a \in Docs(env.site[RtlMarker])}
        \cup {Some([ok |-> FALSE, anchors |-> <<>>]), None}

\* collect_items takes what _fetch_feed returned for the current label
\* (common.py 442-469); an exception leaving _fetch_feed leaves collect_items.
Absorb(p, r, how) ==
    IF r.raised
    THEN /\ pc' = [pc EXCEPT ![p] = "idle"]
         /\ call' = [call EXCEPT ![p].cached = None]
         /\ ret' = [ret EXCEPT ![p] = [status |-> "raised", items |-> <<>>]]
         /\ refreshed' = [refreshed EXCEPT ![p] = FALSE]
         /\ trace' = [trace EXCEPT ![p] =
                Append(@, [label |-> CurLabel(p), how |-> "raised", d |-> EmptyDoc])]
    ELSE /\ pc' = [pc EXCEPT ![p] = "loop"]
         /\ call' = [call EXCEPT ![p] =
                [@ EXCEPT !.items = @ \o FeedItems(r.d, CurLabel(p), call[p].max_per_feed),
                          !.i = @ + 1,
                          !.cached = None]]
         /\ trace' = [trace EXCEPT ![p] =
                Append(@, [label |-> CurLabel(p), how |-> how, d |-> r.d])]
         /\ UNCHANGED <<ret, refreshed>>

\* collect_items is entered (common.py 425-426).
Enter(p, a) ==
    /\ pc' = [pc EXCEPT ![p] = "loop"]
    /\ call' = [call EXCEPT ![p] =
            [feed_labels |-> a.feed_labels, query |-> a.query,
             max_per_feed |-> a.max_per_feed, i |-> 1, items |-> <<>>,
             now |-> 0, cached |-> None]]
    /\ ret' = [ret EXCEPT ![p] = NoRet]
    /\ trace' = [trace EXCEPT ![p] = <<>>]

\* A page calls collect_items.
CollectStart(p, a) ==
    /\ p \in env.sessions /\ pc[p] = "idle"
    /\ a \in env.args
    /\ Enter(p, a)
    /\ UNCHANGED <<clock, env, kbm_ok, shown, artLog, feedCache, artCache, putAt, cleared, refreshed>>

\* "Ververs nu" (app.py 111-113, pages/01_Binnenland.py 31-34): the click
\* clears st.cache_data and the script goes on (or reruns) to collect_items.
VerversNu(p, a) ==
    /\ p \in env.sessions /\ pc[p] = "idle"
    /\ a \in env.args
    /\ feedCache' = AfterCacheDataClear(feedCache, artCache)[1]
    /\ artCache' = AfterCacheDataClear(feedCache, artCache)[2]
    /\ Enter(p, a)
    /\ refreshed' = [refreshed EXCEPT ![p] = TRUE]
    /\ UNCHANGED <<clock, env, kbm_ok, shown, artLog, putAt, cleared>>

\* common.py 428-430: a label FEEDS does not hold is skipped.
LoopUnknown(p) ==
    /\ InLoop(p)
    /\ CurLabel(p) \notin DOMAIN FEEDS
    /\ call' = [call EXCEPT ![p].i = @ + 1]
    /\ trace' = [trace EXCEPT ![p] =
            Append(@, [label |-> CurLabel(p), how |-> "unknown", d |-> EmptyDoc])]
    /\ UNCHANGED <<clock, env, kbm_ok, shown, artLog, feedCache, artCache, pc, ret, putAt, cleared, refreshed>>

\* common.py 432-440: an RTL marker is scraped, with its own request.
LoopRtl(p) ==
    /\ InLoop(p)
    /\ CurLabel(p) \in DOMAIN FEEDS /\ CurUrl(p) = RtlMarker
    /\ \E resp \in RtlResponses :
        /\ call' = [call EXCEPT ![p] =
                [@ EXCEPT !.items = @ \o _scrape_rtl_listing(resp, call[p].max_per_feed),
                          !.i = @ + 1]]
        /\ trace' = [trace EXCEPT ![p] =
                Append(@, [label |-> CurLabel(p), how |-> "rtl",
                           d |-> IF resp # None /\ resp[1].ok THEN resp[1].anchors
                                 ELSE <<>>])]
    /\ UNCHANGED <<clock, env, kbm_ok, shown, artLog, feedCache, artCache, pc, ret, putAt, cleared, refreshed>>

\* common.py 442, 350-356: _fetch_feed is called; a fresh entry is returned,
\* otherwise the request is sent.
FetchBegin(p) ==
    /\ InLoop(p)
    /\ CurLabel(p) \in DOMAIN FEEDS /\ CurUrl(p) \in FeedUrls
    /\ LET cached == CacheGet(feedCache, CurUrl(p))
       IN  IF IsFresh(cached, clock)
           THEN Absorb(p, HitResult(cached), "hit")
           ELSE /\ pc' = [pc EXCEPT ![p] = "request"]
                /\ call' = [call EXCEPT ![p] = [@ EXCEPT !.now = clock, !.cached = cached]]
                /\ UNCHANGED <<ret, trace, refreshed>>
    /\ UNCHANGED <<clock, env, kbm_ok, shown, artLog, feedCache, artCache, putAt, cleared>>

\* common.py 358-362: the response arrives, is parsed and stored.
FetchStore(p) ==
    /\ pc[p] = "request"
    /\ \E resp \in Responses(CurUrl(p)) :
        /\ feedCache' = StoreEntry(feedCache, CurUrl(p), call[p].now, ParsedDoc(resp))
        /\ Absorb(p, Returned(ParsedDoc(resp)), IF resp.ok THEN "fetched" ELSE "status")
    /\ putAt' = DictPut(putAt, CurUrl(p), clock)
    /\ cleared' = cleared \ {CurUrl(p)}
    /\ UNCHANGED <<clock, env, kbm_ok, shown, artLog, artCache>>

\* common.py 358, 363-364: the request raises (timeout, connection error).
FetchRaise(p) ==
    /\ pc[p] = "request"
    /\ Absorb(p, FallbackResult(StaleOf(call[p].cached)), "failed")
    /\ UNCHANGED <<clock, env, kbm_ok, shown, artLog, feedCache, artCache, putAt, cleared>>

\* common.py 471-476: the loop is over; filter, sort, return.
CollectReturn(p) ==
    /\ pc[p] = "loop" /\ call[p].i > Len(call[p].feed_labels)
    /\ ret' = [ret EXCEPT ![p] =
            [status |-> "returned",
             items |-> SortItems(QueryFilter(call[p].items, call[p].query))]]
    /\ pc' = [pc EXCEPT ![p] = "idle"]
    /\ refreshed' = [refreshed EXCEPT ![p] = FALSE]
    /\ UNCHANGED <<clock, env, kbm_ok, shown, artLog, feedCache, artCache, call, trace, putAt, cleared>>

\* common.py 94-95, called by a session between two of its calls.
clear_feed_caches(p) ==
    /\ p \in env.sessions /\ pc[p] = "idle"
    /\ feedCache' = ClearedFeedCache(feedCache)
    /\ cleared' = cleared \cup DOMAIN feedCache
    /\ UNCHANGED <<clock, env, kbm_ok, shown, artLog, artCache, pc, call, ret, trace, putAt, refreshed>>

ArticleUrls == {"https://nos.nl/artikel/1"}

ArticleTexts == {"", "De storm trekt in de loop van de avond over de kust."}

\* kbm_ui.py 327-407 under @st.cache_data(ttl=60 * 30): the text is fetched
\* unless the store holds an entry younger than the ttl; what the function
\* returns is stored.
_fetch_article_text(p, url) ==
    /\ p \in env.sessions /\ pc[p] = "idle"
    /\ url \in ArticleUrls
    /\ ~(url \in DOMAIN artCache /\ clock - artCache[url].t < ARTICLE_TTL)
    /\ \E text \in ArticleTexts :
        artCache' = DictPut(artCache, url, [t |-> clock, text |-> text])
    /\ UNCHANGED <<clock, env, kbm_ok, shown, artLog, feedCache, pc, call, ret, trace, putAt, cleared, refreshed>>

\* Time passes.
Tick ==
    /\ clock < StartTime + MaxTime
    /\ clock' = clock + TimeStep
    /\ UNCHANGED <<env, kbm_ok, shown, artLog, feedCache, artCache, pc, call, ret, trace, putAt, cleared, refreshed>>

\* The steps of a collect_items call.
CollectStep(p) ==
    \/ \E a \in env.args : CollectStart(p, a)
    \/ LoopUnknown(p)
    \/ LoopRtl(p)
    \/ FetchBegin(p)
    \/ FetchStore(p)
    \/ FetchRaise(p)
    \/ CollectReturn(p)

Next ==
    \/ \E p \in Threads : CollectStep(p)
    \/ \E p \in Threads : \E a \in env.args : VerversNu(p, a)
    \/ \E p \in Threads : \E url \in ArticleUrls : _fetch_article_text(p, url)
    \/ \E p \in Threads : clear_feed_caches(p)
    \/ Tick

(***************************************************************************)
(* Initial states.  Nothing is cached and no script runs.                  *)
(***************************************************************************)
InitState ==
    /\ clock = StartTime
    /\ feedCache = EmptyDict
    /\ artCache = EmptyDict
    /\ pc = [p \in Threads |-> "idle"]
    /\ call = [p \in Threads |-> NoCall]
    /\ ret = [p \in Threads |-> NoRet]
    /\ trace = [p \in Threads |-> <<>>]
    /\ putAt = EmptyDict
    /\ cleared = {}
    /\ refreshed = [p \in Threads |-> FALSE]
    /\ shown = [p \in Threads |-> NoPage]
    /\ artLog = <<>>
    /\ kbm_ok = [p \in Threads |-> None]

\* The labels of a category, in the order its list names them.
CategoryLabels == <<"nos_binnenland", UnknownLabel, "nu_algemeen", "rtl_nieuws">>

RECURSIVE Pick(_, _, _)
Pick(order, I, k) ==
    IF k > Len(order) THEN <<>>
    ELSE (IF k \in I THEN <<order[k]>> ELSE <<>>) \o Pick(order, I, k + 1)

\* The lists a page passes: at most MaxLabels labels of a category, in its order.
LabelLists(order) ==
    {Pick(order, I, 1) : I \in {J \in SUBSET (1..Len(order)) : Cardinality(J) <= MaxLabels}}

\* common.py 425: max_per_feed: int=25
DEFAULT_MAX_PER_FEED == 25

\* Two sessions whose pages collect the NOS feed, over time: the feed cache,
\* the st.cache_data store, the clock and the refresh button.
Init ==
    /\ InitState
    /\ env = [tz |-> 0,
              sessions |-> Threads,
              site |-> [u \in SiteUrls |-> IF u = RtlMarker THEN {aStorm} ELSE {eStorm}],
              args |-> {[feed_labels |-> l, query |-> "",
                         max_per_feed |-> DEFAULT_MAX_PER_FEED] :
                            l \in {<<"nos_binnenland">>, <<UnknownLabel, "rtl_nieuws">>}}]

Spec == Init /\ [][Next]_vars

\* One script run from a cold cache: the page passes any labels, with or
\* without a query, to sites that list any entries, on a host on UTC or UTC+1.
InitCollect ==
    /\ InitState
    /\ \E z \in {0, 3600} :
        env = [tz |-> z,
               sessions |-> {"s1"},
               site |-> [u \in SiteUrls |->
                            CASE u = NosUrl -> NosEntries
                              [] u = NosBuitenlandUrl -> NosEntries
                              [] u = NuUrl -> NuEntries
                              [] u = RtlMarker -> RtlAnchors],
               args |-> [feed_labels : LabelLists(CategoryLabels),
                         query : {"", "STORM"},
                         max_per_feed : 1..MaxPerFeedTop]]

\* The session's first script run.
FirstRun(p) == ret[p] = NoRet /\ trace[p] = <<>> /\ \E a \in env.args : CollectStart(p, a)

NextCollect ==
    \E p \in Threads :
        \/ FirstRun(p)
        \/ LoopUnknown(p)
        \/ LoopRtl(p)
        \/ FetchBegin(p)
        \/ FetchStore(p)
        \/ FetchRaise(p)
        \/ CollectReturn(p)

SpecCollect == InitCollect /\ [][NextCollect]_vars

(***************************************************************************)
(* The pages: a section on the home page (app.py) and a category page      *)
(* (kbm_ui.py), each a collect_items call followed by the hours filter.    *)
(***************************************************************************)
MaxHours == 2         \* the hours slider is drawn from 1..MaxHours

\* common.py 215-244, the labels of the registry above only.
CATEGORY_FEEDS ==
    [c \in {"Net binnen", "Buitenland"} |->
        CASE c = "Net binnen" -> <<"nos_binnenland", "nu_algemeen", "rtl_nieuws">>
          [] c = "Buitenland" -> <<"nos_buitenland", "rtl_nieuws">>]

\* A within_hours that lets an item without dt pass.
within_hours_undated_ok(dt, hours, now) ==
    IF dt = None THEN TRUE ELSE dt[1] >= now - hours * 3600

\* common.py 257-261; now is datetime.now(timezone.utc).
within_hours(dt, hours, now) ==
    IF dt = None THEN FALSE ELSE dt[1] >= now - hours * 3600

\* [x for x in items if within_hours(x.get("dt"), hours)]
RECURSIVE FilterHours(_, _, _)
FilterHours(items, hours, now) ==
    IF items = <<>> THEN <<>>
    ELSE (IF within_hours(Head(items).dt, hours, now) THEN <<Head(items)>> ELSE <<>>)
            \o FilterHours(Tail(items), hours, now)

\* kbm_ui.py 161-184, after its collect_items call returned items.
_get_items_for_section(title, items, hours_limit, now) ==
    SortItems(IF hours_limit > 0 /\ Lower(Strip(title)) = "net binnen"
              THEN FilterHours(items, hours_limit, now)
              ELSE items)

\* The category whose labels the session's last collect_items call was given.
PageOf(p) == CHOOSE c \in DOMAIN CATEGORY_FEEDS : CATEGORY_FEEDS[c] = call[p].feed_labels

PageReady(p) ==
    /\ p \in env.sessions /\ pc[p] = "idle"
    /\ ret[p].status = "returned"
    /\ \E c \in DOMAIN CATEGORY_FEEDS : CATEGORY_FEEDS[c] = call[p].feed_labels

\* app.py 159-173: render_section, from the return of collect_items on.
app_render_section(p, hours_limit) ==
    /\ PageReady(p)
    /\ shown' = [shown EXCEPT ![p] =
            [kind |-> "app", cat |-> PageOf(p), hours |-> hours_limit, now |-> clock,
             from |-> ret[p].items,
             items |-> FilterHours(ret[p].items, hours_limit, clock)]]
    /\ UNCHANGED <<clock, env, kbm_ok, feedCache, artCache, pc, call, ret, trace,
                   putAt, cleared, refreshed, artLog>>

\* kbm_ui.py 444-467: render_section, from the return of collect_items on.
kbm_render_section(p, hours_limit) ==
    /\ PageReady(p)
    /\ shown' = [shown EXCEPT ![p] =
            [kind |-> "kbm", cat |-> PageOf(p), hours |-> hours_limit, now |-> clock,
             from |-> ret[p].items,
             items |-> _get_items_for_section(PageOf(p), ret[p].items,
                                              hours_limit, clock)]]
    /\ UNCHANGED <<clock, env, kbm_ok, feedCache, artCache, pc, call, ret, trace,
                   putAt, cleared, refreshed, artLog>>

\* One session opens one page: the feeds list some of two entries, the host
\* is on UTC or UTC+1, time passes while the script runs.
InitPages ==
    /\ InitState
    /\ \E z \in {0, 3600} :
        env = [tz |-> z,
               sessions |-> {"s1"},
               site |-> [u \in SiteUrls |->
                            IF u = RtlMarker THEN {aStorm} ELSE {eStorm, eArchief}],
               args |-> {[feed_labels |-> CATEGORY_FEEDS[c], query |-> "",
                          max_per_feed |-> DEFAULT_MAX_PER_FEED] :
                                c \in DOMAIN CATEGORY_FEEDS}]

NextPages ==
    \/ \E p \in Threads :
        \/ FirstRun(p)
        \/ LoopRtl(p)
        \/ FetchBegin(p)
        \/ FetchStore(p)
        \/ FetchRaise(p)
        \/ CollectReturn(p)
        \/ \E h \in 1..MaxHours : app_render_section(p, h)
        \/ \E h \in 1..MaxHours : kbm_render_section(p, h)
    \/ Tick

SpecPages == InitPages /\ [][NextPages]_vars

(***************************************************************************)
(* The article page (pages/99_Artikel.py): the readable text of one        *)
(* article, and the items of the pool that cover the same story.           *)
(*                                                                         *)
(* A page is what the selectors of fetch_readable_text see of the markup:  *)
(* the text of the first h1, the text of the head's title, the texts       *)
(* inside noscript elements, the p and li texts of each article element,   *)
(* of each element matching the content selectors, and of the body.        *)
(***************************************************************************)
PARA_MIN == 40
DEDUP_KEY == 140
MAX_CONTAINERS == 3
MIN_SCRAPED_LEN == 200
RELATED_MAX_N == 4
WORD_MIN == 4
MAX_WORDS == 10

pStorm ==
    [h1 |-> " Storm raakt  kustregio ", title |-> "Storm raakt kustregio | NOS",
     noscript |-> <<>>,
     article |-> << << "De storm trekt in de loop van de avond over de kust en bereikt rond middernacht het binnenland.",
                       "Lees ook: dit",
                       " De storm trekt in de loop van de avond over de kust\n en bereikt rond middernacht het binnenland. ",
                       "Het KNMI heeft code oranje afgegeven voor de kustprovincies; reizigers moeten rekening houden met vertraging op het spoor en op de weg." >> >>,
     content |-> << << "Meer nieuws uit de regio vindt u op onze overzichtspagina." >> >>,
     body |-> << "Meer nieuws uit de regio vindt u op onze overzichtspagina." >>]

pShort ==
    [h1 |-> "", title |-> "Ongeval op de A12",
     noscript |-> <<>>,
     article |-> <<>>,
     content |-> << << "Er is nog weinig bekend over de toedracht van het ongeval." >> >>,
     body |-> << "Er is nog weinig bekend over de toedracht van het ongeval." >>]

pConsent ==
    [h1 |-> "", title |-> "DPG Media Privacy Gate",
     noscript |-> <<>>,
     article |-> <<>>,
     content |-> <<>>,
     body |-> << "Om deze site te kunnen bekijken moet je cookies accepteren en akkoord gaan met de voorwaarden." >>]

pJsWall ==
    [h1 |-> "", title |-> "Just a moment...",
     noscript |-> << "Please enable JavaScript and cookies to continue to this site." >>,
     article |-> <<>>,
     content |-> <<>>,
     body |-> <<>>]

ArticlePages == {pStorm, pShort, pConsent, pJsWall}

\* What requests.get and the parser make of an article URL: the request
\* raises, the status is not a success, the markup cannot be parsed, or a
\* page is parsed.
ArticleResponses ==
    {[kind |-> "raise"], [kind |-> "status"], [kind |-> "parse_error"]}
        \cup {[kind |-> "page", page |-> pg] : pg \in ArticlePages}

\* common.py 478-479.
_clean_text(s) == Strip(CollapseWs(s))

\* common.py 488-493: the h1's text, else the head's title.
ReadableTitle(page) ==
    LET t == _clean_text(page.h1)
    IN  IF t # "" THEN t ELSE _clean_text(page.title)

\* common.py 498-502: the article elements, else the content elements,
\* else the body.
Containers(page) ==
    IF page.article # <<>> THEN page.article
    ELSE IF page.content # <<>> THEN page.content
    ELSE << page.body >>

\* common.py 506-508: the cleaned texts of one container that are long
\* enough.
RECURSIVE ContainerParas(_)
ContainerParas(c) ==
    IF c = <<>> THEN <<>>
    ELSE LET t == _clean_text(Head(c))
         IN  (IF Len(t) >= PARA_MIN THEN << t >> ELSE <<>>)
                 \o ContainerParas(Tail(c))

\* common.py 504-505: the first containers only.
RECURSIVE Paras(_)
Paras(cs) ==
    IF cs = <<>> THEN <<>> ELSE ContainerParas(Head(cs)) \o Paras(Tail(cs))

TakeChars(s, n) == IF Len(s) <= n THEN s ELSE SubSeq(s, 1, n)

\* common.py 510-517: a text whose first characters were seen is dropped.
RECURSIVE DedupParas(_, _)
DedupParas(paras, seen) ==
    IF paras = <<>> THEN <<>>
    ELSE LET key == TakeChars(Head(paras), DEDUP_KEY)
         IN  IF key \in seen
             THEN DedupParas(Tail(paras), seen)
             ELSE << Head(paras) >> \o DedupParas(Tail(paras), seen \cup {key})

RECURSIVE JoinParas(_)
JoinParas(out) ==
    IF out = <<>> THEN ""
    ELSE IF Len(out) = 1 THEN out[1]
    ELSE out[1] \o "\n\n" \o JoinParas(Tail(out))

\* common.py 504-519.
ReadableText(page) ==
    Strip(JoinParas(DedupParas(Paras(Take(Containers(page), MAX_CONTAINERS)), {})))

\* common.py 521-522 with the exception propagating instead.
ReadableExceptRaises == [raised |-> TRUE, title |-> "", text |-> ""]

\* common.py 521-522: except Exception: return "", "".
ReadableExcept == [raised |-> FALSE, title |-> "", text |-> ""]

\* common.py 481-522: what the call returns for the response it gets.
fetch_readable_text(resp) ==
    IF resp.kind \in {"raise", "parse_error"} THEN ReadableExcept
    ELSE IF resp.kind = "status" THEN [raised |-> FALSE, title |-> "", text |-> ""]
    ELSE [raised |-> FALSE,
          title |-> ReadableTitle(resp.page),
          text |-> ReadableText(resp.page)]

\* common.py 246-250: urlparse(url).netloc with every "www." removed.
RECURSIVE UpTo(_, _)
UpTo(s, stops) ==
    IF s = "" \/ Char(s, 1) \in stops THEN "" ELSE Char(s, 1) \o UpTo(Tail(s), stops)

RECURSIVE AfterScheme(_)
AfterScheme(s) ==
    IF Len(s) < 2 THEN ""
    ELSE IF StartsWith(s, "//") THEN SubSeq(s, 3, Len(s))
    ELSE AfterScheme(Tail(s))

RECURSIVE Remove(_, _)
Remove(s, sub) ==
    IF s = "" THEN ""
    ELSE IF StartsWith(s, sub) THEN Remove(SubSeq(s, Len(sub) + 1, Len(s)), sub)
    ELSE Char(s, 1) \o Remove(Tail(s), sub)

host(url) == Remove(UpTo(AfterScheme(url), {"/", "?", "#"}), "www.")

\* common.py 596: re.findall(r"[A-Za-z0-9]{4,}", title), each match in lower
\* case.  A match is a whole run of letters and digits; shorter runs give none.
Digits == "0123456789"

IsAlnum(c) ==
    \E i \in 1..Len(UpperChars \o LowerChars \o Digits) :
        Char(UpperChars \o LowerChars \o Digits, i) = c

RECURSIVE Runs(_, _)
Runs(s, cur) ==
    IF s = "" THEN (IF cur = "" THEN <<>> ELSE << cur >>)
    ELSE IF IsAlnum(Char(s, 1)) THEN Runs(Tail(s), cur \o Char(s, 1))
    ELSE (IF cur = "" THEN <<>> ELSE << cur >>) \o Runs(Tail(s), "")

RECURSIVE LowerLong(_)
LowerLong(runs) ==
    IF runs = <<>> THEN <<>>
    ELSE (IF Len(Head(runs)) >= WORD_MIN THEN << Lower(Head(runs)) >> ELSE <<>>)
             \o LowerLong(Tail(runs))

Words(title) == LowerLong(Runs(title, ""))

\* common.py 599.
Keyset(title) ==
    LET w == Take(Words(title), MAX_WORDS) IN {w[i] : i \in 1..Len(w)}

\* common.py 602-603: the words of the keyset the item's title contains.
Score(it, keyset) == Cardinality({w \in keyset : Contains(Lower(it.title), w)})

\* common.py 601-606: the items with a score, highest score first, items of
\* one score in the order of the pool (list.sort is stable).
RECURSIVE Scored(_, _, _)
Scored(all_items, keyset, s) ==
    IF s = 0 THEN <<>>
    ELSE SelectSeq(all_items, LAMBDA it : Score(it, keyset) = s)
             \o Scored(all_items, keyset, s - 1)

\* common.py 607-616: one item per link, until max_n items are out.
RECURSIVE RelatedWalk(_, _, _, _)
RelatedWalk(scored, seen, out, max_n) ==
    IF scored = <<>> THEN out
    ELSE LET it == Head(scored)
         IN  IF it.link = "" \/ it.link \in seen
             THEN RelatedWalk(Tail(scored), seen, out, max_n)
             ELSE IF Len(out) + 1 >= max_n
                  THEN Append(out, it)
                  ELSE RelatedWalk(Tail(scored), seen \cup {it.link},
                                   Append(out, it), max_n)

\* common.py 595-617.
find_related_items(all_items, title, max_n) ==
    IF Words(title) = <<>> THEN <<>>
    ELSE RelatedWalk(Scored(all_items, Keyset(title), Cardinality(Keyset(title))),
                     {}, <<>>, max_n)

\* The items the feeds hold when the article page collects its pool, in the
\* order the categories deliver them: each category's items newest first,
\* one category after the other.  The first is the article of the page; the
\* last comes again with "Net binnen", which lists the NOS feed as well.
PoolItem(title, link, label, age) ==
    [title |-> title, link |-> link, dt |-> Some(StartTime - age),
     rss_summary |-> "", source_label |-> label]

PoolOrder ==
    << PoolItem("Storm raakt kustregio", "https://nos.nl/artikel/1", "nos_binnenland", 0),
       PoolItem("Schade na storm in kustregio", "https://nos.nl/artikel/5", "nos_binnenland", 3600),
       PoolItem("Kabinet presenteert begroting", "https://nos.nl/artikel/6", "nos_binnenland", 7200),
       PoolItem("Storm raakt ook Zeeland", "https://www.nos.nl/artikel/7", "nos_buitenland", 1800),
       PoolItem("Storm op komst: code oranje", "https://www.nu.nl/8", "nu_algemeen", 900),
       PoolItem("Schade na storm in kustregio", "https://nos.nl/artikel/5", "nos_binnenland", 3600) >>

\* At most MaxPool of them.
MaxPool == 3

Pools ==
    {Pick(PoolOrder, I, 1) :
        I \in {J \in SUBSET (1..Len(PoolOrder)) : Cardinality(J) <= MaxPool}}

\* The requests the model follows.
MaxFetches == 2

\* The results of fetch_readable_text and of find_related_items for the
\* inputs above, computed once.
ReadableResults == [resp \in ArticleResponses |-> fetch_readable_text(resp)]

RelatedResults ==
    [title \in {ReadableResults[resp].title : resp \in ArticleResponses}, pool \in Pools |->
        find_related_items(pool, title, RELATED_MAX_N)]

\* pages/99_Artikel.py 6-24: the page of the article at url, up to the text
\* or the warning shown in its place.
ArtikelFetch(p, url) ==
    /\ p \in env.sessions /\ pc[p] = "idle"
    /\ url \in ArticleUrls
    /\ Len(artLog) < MaxFetches
    /\ \E resp \in ArticleResponses :
        LET r == ReadableResults[resp]
        IN  shown' = [shown EXCEPT ![p] =
                        [kind |-> "artikel", url |-> url, resp |-> resp,
                         raised |-> r.raised, title |-> r.title, text |-> r.text,
                         outcome |-> IF r.raised THEN "exception"
                                     ELSE IF r.text # "" THEN "text" ELSE "warning",
                         pool |-> None, related |-> None]]
    /\ artLog' = Append(artLog, [url |-> url, t |-> clock, by |-> "fetch_readable_text"])
    /\ UNCHANGED <<clock, env, kbm_ok, feedCache, artCache, pc, call, ret, trace, putAt, cleared, refreshed>>

\* pages/99_Artikel.py 29-38: the related items of the pool for the title.
ArtikelRelated(p) ==
    /\ p \in env.sessions /\ pc[p] = "idle"
    /\ shown[p].kind = "artikel" /\ ~shown[p].raised /\ shown[p].related = None
    /\ \E pool \in Pools :
        shown' = [shown EXCEPT ![p].pool = Some(pool),
                               ![p].related =
                                   Some(RelatedResults[shown[p].title, pool])]
    /\ UNCHANGED <<clock, env, kbm_ok, artLog, feedCache, artCache, pc, call, ret, trace, putAt, cleared, refreshed>>

\* What kbm_ui._fetch_article_text can return for an article.
ScrapedTexts == ArticleTexts \cup {ReadableText(pStorm)}

ArtFresh(url) == url \in DOMAIN artCache /\ clock - artCache[url].t < ARTICLE_TTL

\* kbm_ui.py 410-435: _render_article of an item without a body of its own:
\* the text comes from _fetch_article_text, which st.cache_data answers from
\* its store while the entry is younger than the ttl, and is shown when it is
\* long enough.
_render_article(p, url) ==
    /\ p \in env.sessions /\ pc[p] = "idle"
    /\ url \in ArticleUrls
    /\ IF ArtFresh(url)
       THEN /\ UNCHANGED <<artCache, artLog>>
            /\ shown' = [shown EXCEPT ![p] =
                            [kind |-> "kbm_artikel", url |-> url, hit |-> TRUE,
                             body |-> IF Len(artCache[url].text) > MIN_SCRAPED_LEN
                                      THEN artCache[url].text ELSE ""]]
       ELSE /\ Len(artLog) < MaxFetches
            /\ \E scraped \in ScrapedTexts :
                /\ artCache' = DictPut(artCache, url, [t |-> clock, text |-> scraped])
                /\ shown' = [shown EXCEPT ![p] =
                                [kind |-> "kbm_artikel", url |-> url, hit |-> FALSE,
                                 body |-> IF Len(scraped) > MIN_SCRAPED_LEN
                                          THEN scraped ELSE ""]]
            /\ artLog' = Append(artLog, [url |-> url, t |-> clock, by |-> "_fetch_article_text"])
    /\ UNCHANGED <<clock, env, kbm_ok, feedCache, pc, call, ret, trace, putAt, cleared, refreshed>>

\* The ttl of the article store passes.
TickTtl ==
    /\ clock < StartTime + ARTICLE_TTL
    /\ clock' = clock + ARTICLE_TTL
    /\ UNCHANGED <<env, kbm_ok, shown, artLog, feedCache, artCache, pc, call, ret, trace, putAt, cleared, refreshed>>

\* One session on the article page and on a category page's article view.
InitArticle ==
    /\ InitState
    /\ env = [tz |-> 0,
              sessions |-> {"s1"},
              site |-> [u \in SiteUrls |-> {}],
              args |-> {}]

NextArticle ==
    \/ \E p \in Threads, url \in ArticleUrls :
        \/ ArtikelFetch(p, url)
        \/ _render_article(p, url)
    \/ \E p \in Threads : ArtikelRelated(p)
    \/ Tick
    \/ TickTtl

SpecArticle == InitArticle /\ [][NextArticle]_vars

(***************************************************************************)
(* Opening an item of a section by its id (kbm_ui.render_section).         *)
(***************************************************************************)
\* common.py 264: the text the id is the digest of.
IdBase(item) == item.link \o item.title

\* common.py 263-265: hashlib.sha1(base).hexdigest()[:16].  The digest is a
\* function of the text alone; it is written here as the digest of that
\* text, two digests being equal when the texts are.
item_id(item) == [sha1_16 |-> IdBase(item)]

\* Items a section can list.
ListedItem(title, link) ==
    [title |-> title, link |-> link, dt |-> Some(StartTime), rss_summary |-> "",
     source_label |-> "nos_binnenland"]

ListedItems ==
    {ListedItem("Storm raakt kustregio", "https://nos.nl/artikel/1"),
     ListedItem("Storm raakt kustregio", "https://nos.nl/artikel/2"),
     ListedItem("Code oranje aan zee", "https://nos.nl/artikel/1"),
     ListedItem("20 gewonden bij storm", "https://nos.nl/artikel/1"),
     ListedItem("0 gewonden bij storm", "https://nos.nl/artikel/12")}

\* A section lists at most this many of them.
MaxListed == 3

Listings == {l \in SeqsUpTo(ListedItems, MaxListed) : IsInjective(l)}

\* kbm_ui.py 202-211, 486-500: the section shows its items, each card a link
\* ?section=...&open=<item_id>.
SectionList(p) ==
    /\ p \in env.sessions /\ pc[p] = "idle"
    /\ \E items \in Listings :
        shown' = [shown EXCEPT ![p] =
                    [kind |-> "lijst", items |-> items,
                     hrefs |-> [k \in 1..Len(items) |-> item_id(items[k])]]]
    /\ UNCHANGED <<clock, env, kbm_ok, artLog, feedCache, artCache, pc, call, ret, trace, putAt, cleared, refreshed>>

\* kbm_ui.py 469-476: the first item whose id is the one asked for.
RECURSIVE FirstWithId(_, _, _)
FirstWithId(items, qp_open, k) ==
    IF k > Len(items) THEN 0
    ELSE IF item_id(items[k]) = qp_open THEN k
    ELSE FirstWithId(items, qp_open, k + 1)

\* kbm_ui.py 466-484: the reader follows the link of card k and the section
\* runs again with open=<id>: the article view of the item found is shown.
SectionOpen(p, k) ==
    /\ p \in env.sessions /\ pc[p] = "idle"
    /\ shown[p].kind = "lijst"
    /\ k \in 1..Len(shown[p].items)
    /\ shown' = [shown EXCEPT ![p] =
                    [kind |-> "open", items |-> shown[p].items, clicked |-> k,
                     hit |-> FirstWithId(shown[p].items, shown[p].hrefs[k], 1)]]
    /\ UNCHANGED <<clock, env, kbm_ok, artLog, feedCache, artCache, pc, call, ret, trace, putAt, cleared, refreshed>>

\* kbm_ui.py 478-483: back to the list.
SectionBack(p) ==
    /\ p \in env.sessions /\ pc[p] = "idle"
    /\ shown[p].kind = "open"
    /\ shown' = [shown EXCEPT ![p] =
                    [kind |-> "lijst", items |-> shown[p].items,
                     hrefs |-> [k \in 1..Len(shown[p].items) |-> item_id(shown[p].items[k])]]]
    /\ UNCHANGED <<clock, env, kbm_ok, artLog, feedCache, artCache, pc, call, ret, trace, putAt, cleared, refreshed>>

NextOpen ==
    \E p \in Threads :
        \/ SectionList(p)
        \/ \E k \in 1..MaxListed : SectionOpen(p, k)
        \/ SectionBack(p)

SpecOpen == InitArticle /\ [][NextOpen]_vars

(***************************************************************************)
(* The password of the private mode (require_login) and the pages.         *)
(***************************************************************************)
\* The scripts that call require_login, and scripts that do not.
LoginPages == {"app.py", "pages/01_Binnenland.py"}

OpenPages == {"pages/00_Net_binnen.py", "pages/99_Artikel.py"}

\* What st.secrets holds for APP_PASSWORD ("": not configured) and what a
\* visitor types.
Secrets == {"", "geheim", " geheim\n"}

Typed == {"", "geheim", "raden"}

\* app.py 24-38, pages/01_Binnenland.py 8-21: the value of kbm_ok after the
\* call, and whether the call ended the script run with st.stop().
require_login(secret, ok, inp, clicked) ==
    LET pw == Strip(secret)
        ok1 == IF ok = None THEN Some(FALSE) ELSE ok
        ok2 == IF clicked THEN Some(inp = pw) ELSE ok1
    IN  IF pw = "" THEN [kbm_ok |-> ok, stop |-> FALSE]
        ELSE IF ok1 = Some(TRUE) THEN [kbm_ok |-> ok1, stop |-> FALSE]
        ELSE [kbm_ok |-> ok2, stop |-> ok2 # Some(TRUE)]

\* A script run of a page: require_login where the script calls it, then,
\* unless the run was stopped, the body of the page, which collects and
\* renders the items.
PageScript(p, page, inp, clicked) ==
    /\ p \in env.sessions /\ pc[p] = "idle"
    /\ LET r == IF page \in LoginPages
                THEN require_login(env.APP_PASSWORD, kbm_ok[p], inp, clicked)
                ELSE [kbm_ok |-> kbm_ok[p], stop |-> FALSE]
       IN  /\ kbm_ok' = [kbm_ok EXCEPT ![p] = r.kbm_ok]
           /\ shown' = [shown EXCEPT ![p] =
                           [kind |-> "pagina", page |-> page, inp |-> inp,
                            clicked |-> clicked, items_rendered |-> ~r.stop]]
    /\ UNCHANGED <<clock, env, artLog, feedCache, artCache, pc, call, ret, trace, putAt, cleared, refreshed>>

\* Two visitors of an app whose password is or is not configured.
InitLogin ==
    /\ InitState
    /\ \E secret \in Secrets :
        env = [tz |-> 0,
               sessions |-> Threads,
               site |-> [u \in SiteUrls |-> {}],
               args |-> {},
               APP_PASSWORD |-> secret]

NextLogin ==
    \E p \in Threads, page \in LoginPages \cup OpenPages, inp \in Typed, clicked \in BOOLEAN :
        PageScript(p, page, inp, clicked)

SpecLogin == InitLogin /\ [][NextLogin]_vars

(***************************************************************************)
(* The OV Info page (pages/OV_info.py), tab 1: the departures of the stop  *)
(* the visitor picked.                                                     *)
(***************************************************************************)
\* Stops of the search result: with a stop code, with town and name only,
\* and with a name only.
Stops ==
    {[StopCode |-> "30001234", StopName |-> "Huizen, Busstation", Town |-> "Huizen"],
     [StopCode |-> "", StopName |-> "Gouda, Station", Town |-> "Gouda"],
     [StopCode |-> "", StopName |-> "Zuiderzee", Town |-> ""]}

\* pages/OV_info.py 323-362: what a run shows below "Vertrektijden" when it
\* gets there: the board with the rows of the answer, the empty board, or
\* the error of a request that raised.
DepartureViews(sel) ==
    IF sel.StopCode # "" \/ (Strip(sel.Town) # "" /\ Strip(sel.StopName) # "")
    THEN {[at |-> "board", rows |-> <<3, 12>>, warning |-> FALSE],
          [at |-> "board", rows |-> <<>>, warning |-> FALSE],
          [at |-> "error", rows |-> <<>>, warning |-> FALSE]}
    ELSE {[at |-> "board", rows |-> <<>>, warning |-> TRUE]}

OvPage(p) == p \in env.sessions /\ pc[p] = "idle" /\ shown[p].kind = "ov"

\* 309-310, 277: the visitor picks a stop of the list, with the toggle
\* "Auto-refresh vertrektijden" as it stands; the script runs again.
OvSelect(p, stop, auto_refresh) ==
    /\ p \in env.sessions /\ pc[p] = "idle"
    /\ shown[p].kind \in {"none", "ov"}
    /\ shown' = [shown EXCEPT ![p] =
                    [kind |-> "ov", sel |-> stop, auto_refresh |-> auto_refresh,
                     at |-> "top", rows |-> <<>>, warning |-> FALSE]]
    /\ UNCHANGED <<clock, env, kbm_ok, artLog, feedCache, artCache, pc, call, ret, trace, putAt, cleared, refreshed>>

\* 277: the visitor switches the toggle; the script runs again.
OvToggle(p) ==
    /\ OvPage(p)
    /\ shown' = [shown EXCEPT ![p].auto_refresh = ~@, ![p].at = "top",
                               ![p].rows = <<>>, ![p].warning = FALSE]
    /\ UNCHANGED <<clock, env, kbm_ok, artLog, feedCache, artCache, pc, call, ret, trace, putAt, cleared, refreshed>>

\* 312-320: a run with the toggle on comes to the caption and sleeps.
OvRunAuto(p) ==
    /\ OvPage(p)
    /\ shown[p].at = "top" /\ shown[p].auto_refresh
    /\ shown' = [shown EXCEPT ![p].at = "sleep"]
    /\ UNCHANGED <<clock, env, kbm_ok, artLog, feedCache, artCache, pc, call, ret, trace, putAt, cleared, refreshed>>

\* 321: st.rerun() ends the run there and starts the script again.
OvRerun(p) ==
    /\ OvPage(p)
    /\ shown[p].at = "sleep"
    /\ shown' = [shown EXCEPT ![p].at = "top"]
    /\ UNCHANGED <<clock, env, kbm_ok, artLog, feedCache, artCache, pc, call, ret, trace, putAt, cleared, refreshed>>

\* 312-318, 323-362: a run with the toggle off fetches the departures and
\* renders the board.
OvRunBoard(p) ==
    /\ OvPage(p)
    /\ shown[p].at = "top" /\ ~shown[p].auto_refresh
    /\ \E v \in DepartureViews(shown[p].sel) :
        shown' = [shown EXCEPT ![p].at = v.at, ![p].rows = v.rows,
                               ![p].warning = v.warning]
    /\ UNCHANGED <<clock, env, kbm_ok, artLog, feedCache, artCache, pc, call, ret, trace, putAt, cleared, refreshed>>

NextOv ==
    \E p \in Threads :
        \/ \E stop \in Stops, auto_refresh \in BOOLEAN : OvSelect(p, stop, auto_refresh)
        \/ OvToggle(p)
        \/ OvRunAuto(p)
        \/ OvRerun(p)
        \/ OvRunBoard(p)

InitOv ==
    /\ InitState
    /\ env = [tz |-> 0,
              sessions |-> Threads,
              site |-> [u \in SiteUrls |-> {}],
              args |-> {}]

SpecOv == InitOv /\ [][NextOv]_vars

\* A script run that has begun goes on: Streamlit runs the script of a
\* session to its end or to its st.rerun().  The visitor owes nothing.
SpecOvFair ==
    /\ SpecOv
    /\ \A p \in Threads :
        /\ WF_vars(OvRunAuto(p))
        /\ WF_vars(OvRerun(p))
        /\ WF_vars(OvRunBoard(p))

(***************************************************************************)
(* Properties.                                                             *)
(***************************************************************************)
Last(s) == s[Len(s)]

Min(a, b) == IF a < b THEN a ELSE b

HasText(str) == \E i \in 1..Len(str) : ~IsSpace(Char(str, i))

\* An entry with a title and a link that are not blank.
ValidEntry(e) ==
    /\ "title" \in DOMAIN e /\ HasText(e.title)
    /\ "link" \in DOMAIN e /\ HasText(e.link)

\* The source_label the items of a label carry.
SourceLabelOf(label) ==
    IF label \in DOMAIN FEEDS /\ FEEDS[label] = RtlMarker THEN "rtl_direct" ELSE label

CountFrom(items, source) ==
    Cardinality({i \in 1..Len(items) : items[i].source_label = source})

\* How many of the first max_per_feed entries of a document are valid.
ValidCount(d, max_per_feed) ==
    Cardinality({n \in 1..Min(Len(d), max_per_feed) : ValidEntry(d[n])})

HasReturned(p) == ret[p].status = "returned"

\* C1: when two different feeds list an entry with the same (link, title),
\* the result of collect_items holds one item of that identity, not two.
C1_OneItemPerIdentity ==
    \A p \in Threads : HasReturned(p) =>
        \A i, j \in 1..Len(ret[p].items) :
            (i # j /\ ret[p].items[i].source_label # ret[p].items[j].source_label)
                => ~(/\ ret[p].items[i].link = ret[p].items[j].link
                     /\ ret[p].items[i].title = ret[p].items[j].title)

\* C2: the result of collect_items is ordered by dt, newest first, and every
\* item without a dt comes after every item with one.
C2_SortedUndatedLast ==
    \A p \in Threads : HasReturned(p) =>
        \A i, j \in 1..Len(ret[p].items) : i < j =>
            /\ ret[p].items[i].dt = None => ret[p].items[j].dt = None
            /\ (ret[p].items[i].dt # None /\ ret[p].items[j].dt # None)
                    => ret[p].items[i].dt[1] >= ret[p].items[j].dt[1]

\* C3: a _fetch_feed call that begins less than _CACHE_TTL seconds after the
\* entry of its URL was stored returns the stored document without a
\* request; one that begins later finds the entry still there, as its stale
\* copy, and sends the request.
C3_FreshSinceStored ==
    [][\A p \in Threads :
        (FetchBegin(p) /\ CurUrl(p) \in DOMAIN feedCache) =>
            IF clock - putAt[CurUrl(p)] < _CACHE_TTL
            THEN /\ pc'[p] # "request"
                 /\ Last(trace'[p]) = [label |-> CurLabel(p), how |-> "hit",
                                       d |-> feedCache[CurUrl(p)].d]
            ELSE /\ pc'[p] = "request"
                 /\ call'[p].cached = Some(feedCache[CurUrl(p)])]_vars

\* C4: when the request of _fetch_feed raises, the call returns the document
\* of the entry it found in the cache, however old, or the empty document
\* when it found none; it raises nothing and leaves the cache as it is.
C4_RaiseReturnsStale ==
    [][\A p \in Threads :
        FetchRaise(p) =>
            /\ feedCache' = feedCache
            /\ ret'[p].status # "raised"
            /\ Len(trace'[p]) = Len(trace[p]) + 1
            /\ Last(trace'[p]).d = IF call[p].cached # None
                                   THEN call[p].cached[1].d
                                   ELSE EmptyDoc]_vars

\* A request raised and the call got the document of an entry older than the
\* TTL, which the cache still holds.
C4_Witness ==
    \E p \in Threads :
        /\ trace[p] # <<>>
        /\ Last(trace[p]).how = "failed"
        /\ Last(trace[p]).d # EmptyDoc
        /\ FEEDS[Last(trace[p]).label] \in DOMAIN feedCache
        /\ feedCache[FEEDS[Last(trace[p]).label]].d = Last(trace[p]).d
        /\ clock - feedCache[FEEDS[Last(trace[p]).label]].t >= _CACHE_TTL

\* C5: in a collect_items call from a cold cache, a feed whose request raises
\* adds no item, no exception leaves collect_items, and each feed whose
\* request succeeds adds the items of its valid entries.
C5_FailedFeedAddsNothing ==
    \A p \in Threads :
        /\ ret[p].status # "raised"
        /\ HasReturned(p) =>
            \A k \in DOMAIN trace[p] :
                /\ trace[p][k].how = "failed"
                        => CountFrom(ret[p].items, trace[p][k].label) = 0
                /\ (trace[p][k].how = "fetched" /\ call[p].query = "")
                        => CountFrom(ret[p].items, trace[p][k].label)
                                = ValidCount(trace[p][k].d, call[p].max_per_feed)

\* A call has returned in which one feed failed and another gave its items.
C5_Witness ==
    \E p \in Threads :
        /\ HasReturned(p)
        /\ \E k, j \in DOMAIN trace[p] :
            /\ trace[p][k].how = "failed"
            /\ trace[p][j].how = "fetched"
            /\ CountFrom(ret[p].items, trace[p][j].label) > 0
            /\ CountFrom(ret[p].items, trace[p][k].label) = 0

\* C6: after clear_feed_caches, the next _fetch_feed call for a URL that was
\* cached finds no entry and sends its request, however young the entry was.
C6_ClearedThenRefetched ==
    [][\A p \in Threads :
        (FetchBegin(p) /\ CurUrl(p) \in cleared) =>
            /\ pc'[p] = "request"
            /\ call'[p].cached = None]_vars

\* A call sends its request for a URL that was stored less than the TTL
\* before, and cleared since.
C6_Witness ==
    \E p \in Threads :
        /\ pc[p] = "request"
        /\ CurUrl(p) \in cleared
        /\ CurUrl(p) \in DOMAIN putAt
        /\ call[p].now - putAt[CurUrl(p)] < _CACHE_TTL
        /\ call[p].cached = None

\* C7: the click on "Ververs nu" leaves both the feed cache and the article
\* cache empty.
C7_RefreshPurgesBoth ==
    [][\A p \in Threads :
        (\E a \in env.args : VerversNu(p, a)) =>
            /\ feedCache' = EmptyDict
            /\ artCache' = EmptyDict]_vars

\* C8: no item of the result has a blank title or a blank link, and each
\* valid entry among the first max_per_feed of a fetched document has its
\* item in the result, whatever its neighbours lack.
C8_BlankEntriesDiscarded ==
    \A p \in Threads : HasReturned(p) =>
        /\ \A i \in 1..Len(ret[p].items) :
            HasText(ret[p].items[i].title) /\ HasText(ret[p].items[i].link)
        /\ call[p].query = "" =>
            \A k \in DOMAIN trace[p] : trace[p][k].how = "fetched" =>
                \A n \in 1..Min(Len(trace[p][k].d), call[p].max_per_feed) :
                    ValidEntry(trace[p][k].d[n]) =>
                        \E i \in 1..Len(ret[p].items) :
                            /\ ret[p].items[i].source_label = trace[p][k].label
                            /\ ret[p].items[i].title = Strip(trace[p][k].d[n].title)
                            /\ ret[p].items[i].link = Strip(trace[p][k].d[n].link)

\* A fetched document held an invalid entry before a valid one, and the
\* result holds the item of the valid one.
C8_Witness ==
    \E p \in Threads :
        /\ HasReturned(p)
        /\ \E k \in DOMAIN trace[p] :
            /\ trace[p][k].how = "fetched"
            /\ Len(trace[p][k].d) = 2 /\ call[p].max_per_feed = 2
            /\ ~ValidEntry(trace[p][k].d[1])
            /\ ValidEntry(trace[p][k].d[2])
            /\ CountFrom(ret[p].items, trace[p][k].label) = 1

TrackingMarks == {"utm_", "fbclid=", "gclid="}

\* C9: no item of the result has a link that carries a tracking parameter.
C9_NoTrackingParams ==
    \A p \in Threads : HasReturned(p) =>
        \A i \in 1..Len(ret[p].items) :
            \A m \in TrackingMarks : ~Contains(ret[p].items[i].link, m)

\* C10: each label adds at most max_per_feed items, and the result holds all
\* the items the labels added: with no query its length is the number of
\* items collected, which may exceed max_per_feed.
C10_CapIsPerFeed ==
    \A p \in Threads : HasReturned(p) =>
        /\ \A k \in DOMAIN trace[p] :
            CountFrom(ret[p].items, SourceLabelOf(trace[p][k].label))
                <= call[p].max_per_feed
        /\ call[p].query = "" => Len(ret[p].items) = Len(call[p].items)

\* Two labels each added max_per_feed items and the result holds them all.
C10_Witness ==
    \E p \in Threads :
        /\ HasReturned(p)
        /\ Len(call[p].feed_labels) = 2
        /\ call[p].max_per_feed = MaxPerFeedTop
        /\ Len(ret[p].items) = 2 * call[p].max_per_feed
        /\ \A k \in DOMAIN trace[p] :
            CountFrom(ret[p].items, SourceLabelOf(trace[p][k].label))
                = call[p].max_per_feed

\* The text contains the query, letter case aside.
CiContains(text, q) ==
    \E k \in 0..(Len(text) - Len(q)) :
        \A j \in 1..Len(q) : LowerChar(Char(text, k + j)) = LowerChar(Char(q, j))

CountOf(items, x) == Cardinality({i \in 1..Len(items) : items[i] = x})

ItemSet(items) == {items[i] : i \in 1..Len(items)}

\* C13: with a query, collect_items returns exactly the collected items whose
\* title plus summary contains the query, letter case aside; with no query it
\* returns every collected item.
C13_QueryFilterExact ==
    \A p \in Threads : HasReturned(p) =>
        /\ ItemSet(ret[p].items) \subseteq ItemSet(call[p].items)
        /\ \A x \in ItemSet(call[p].items) :
            CountOf(ret[p].items, x) =
                IF call[p].query = ""
                      \/ CiContains(x.title \o " " \o x.rss_summary, call[p].query)
                THEN CountOf(call[p].items, x)
                ELSE 0

\* A call with a query in capitals has returned: it kept an item whose title
\* holds the word in another case, and dropped another.
C13_Witness ==
    \E p \in Threads :
        /\ HasReturned(p)
        /\ call[p].query = "STORM"
        /\ Len(ret[p].items) > 0
        /\ Len(ret[p].items) < Len(call[p].items)
        /\ \E i \in 1..Len(ret[p].items) : ~Contains(ret[p].items[i].title, "STORM")

\* C14: a collect_items call with an empty list of labels ends in an error,
\* it does not return a result.
C14_EmptyListIsError ==
    \A p \in Threads : HasReturned(p) => call[p].feed_labels # <<>>

\* C20: when the response of _fetch_feed has a non-success status and the call
\* found an (expired) entry in the cache, the call returns that entry's
\* document and the cache still holds it afterwards.
C20_StatusKeepsCached ==
    [][\A p \in Threads :
        (/\ pc[p] = "request" /\ pc'[p] = "loop"
         /\ Last(trace'[p]).how = "status"
         /\ call[p].cached # None) =>
            /\ Last(trace'[p]).d = call[p].cached[1].d
            /\ feedCache'[CurUrl(p)].d = call[p].cached[1].d]_vars

InWindow(x, hours, now) == x.dt # None /\ x.dt[1] >= now - hours * 3600

\* C11: the section of the home page, given a window of h hours, shows no
\* item whose dt is before now minus h hours, no item without dt, and every
\* collected item whose dt is inside the window.
C11_WindowKeepsRecent ==
    \A p \in Threads : shown[p].kind = "app" =>
        /\ ItemSet(shown[p].items) \subseteq ItemSet(shown[p].from)
        /\ \A x \in ItemSet(shown[p].from) :
            CountOf(shown[p].items, x) =
                IF InWindow(x, shown[p].hours, shown[p].now)
                THEN CountOf(shown[p].from, x)
                ELSE 0

\* A section had an item without dt, an item before the window and an item
\* inside it to choose from, and shows an item.
C11_Witness ==
    \E p \in Threads :
        /\ shown[p].kind = "app"
        /\ \E x \in ItemSet(shown[p].from) : x.dt = None
        /\ \E x \in ItemSet(shown[p].from) :
            x.dt # None /\ ~InWindow(x, shown[p].hours, shown[p].now)
        /\ shown[p].items # <<>>

\* C12: a category page that passes its hours limit to kbm_ui.render_section
\* renders no item older than that many hours and no item without dt,
\* whichever its category.
C12_HoursLimitOnEveryPage ==
    \A p \in Threads : shown[p].kind = "kbm" =>
        \A x \in ItemSet(shown[p].items) : InWindow(x, shown[p].hours, shown[p].now)

ArtikelShown(p) == p \in env.sessions /\ shown[p].kind = "artikel"

\* C17: fetch_readable_text never raises: when the request fails, the status
\* is not a success or the markup cannot be parsed, it returns the empty
\* title and the empty text, and the call leaves both caches as they were.
C17_FetchNeverRaises ==
    [][\A p \in Threads, url \in ArticleUrls :
        ArtikelFetch(p, url) =>
            /\ ~shown'[p].raised
            /\ shown'[p].resp.kind # "page" =>
                   shown'[p].title = "" /\ shown'[p].text = ""
            /\ feedCache' = feedCache /\ artCache' = artCache]_vars

\* A request that raised was answered with the empty result, the warning was
\* shown, and the article store held an entry all along.
C17_Witness ==
    \E p \in Threads :
        /\ ArtikelShown(p)
        /\ shown[p].resp.kind = "raise"
        /\ ~shown[p].raised /\ shown[p].title = "" /\ shown[p].text = ""
        /\ shown[p].outcome = "warning"
        /\ artCache # EmptyDict

\* The phrases of a page that asks for JavaScript or for consent to cookies.
GatePhrases == {"enable javascript", "cookies accepteren"}

MarkupTexts(page) ==
    {page.h1, page.title}
        \cup {page.noscript[i] : i \in 1..Len(page.noscript)}
        \cup {page.body[i] : i \in 1..Len(page.body)}
        \cup UNION {{c[i] : i \in 1..Len(c)} :
                      c \in {page.article[k] : k \in 1..Len(page.article)}
                              \cup {page.content[k] : k \in 1..Len(page.content)}}

IsGatePage(page) ==
    \E t \in MarkupTexts(page), ph \in GatePhrases : CiContains(t, ph)

\* C15: for a page whose markup holds a JavaScript or consent gate phrase
\* the article page gets the empty text, never text taken from the gate.
C15_GateGivesNoText ==
    \A p \in Threads :
        (ArtikelShown(p) /\ shown[p].resp.kind = "page" /\ IsGatePage(shown[p].resp.page))
            => shown[p].text = "" /\ shown[p].outcome = "warning"

\* C16: a text the article page shows as the article is longer than the
\* minimum length; a shorter extraction is not shown as the article.
C16_ShortTextIsNoArticle ==
    \A p \in Threads :
        (ArtikelShown(p) /\ shown[p].outcome = "text")
            => Len(shown[p].text) > MIN_SCRAPED_LEN

\* C18: two requests for one URL that are less than the article ttl apart
\* cause at most one fetch.
C18_OneFetchPerTtl ==
    \A i, j \in 1..Len(artLog) :
        (i < j /\ artLog[i].url = artLog[j].url)
            => artLog[j].t - artLog[i].t >= ARTICLE_TTL

\* C19: the related items of the article page are at most max_n, none of
\* them is the article itself, and no host has more than two of them.
C19_RelatedCapped ==
    \A p \in Threads :
        (ArtikelShown(p) /\ shown[p].related # None) =>
            LET r == shown[p].related[1]
            IN  /\ Len(r) <= RELATED_MAX_N
                /\ \A i \in 1..Len(r) : r[i].link # shown[p].url
                /\ \A i \in 1..Len(r) :
                       Cardinality({j \in 1..Len(r) : host(r[j].link) = host(r[i].link)}) <= 2

\* C21: with clear_feed_caches and _fetch_feed calls of other sessions in any
\* order, a call returns the whole document of the entry it read or the whole
\* document of its own request; an entry holds the time and the document of
\* one fetch; and no call raises because the entry it read has been cleared.
C21_ReadersSeeWholeEntries ==
    [][\A p \in Threads :
        /\ ret'[p].status # "raised"
        /\ (FetchBegin(p) /\ pc'[p] # "request") =>
               /\ CurUrl(p) \in DOMAIN feedCache
               /\ Last(trace'[p]).d = feedCache[CurUrl(p)].d
        /\ FetchStore(p) =>
               /\ feedCache'[CurUrl(p)] = [t |-> call[p].now, d |-> Last(trace'[p]).d]
               /\ \A u \in DOMAIN feedCache' \ {CurUrl(p)} :
                      u \in DOMAIN feedCache /\ feedCache'[u] = feedCache[u]
        /\ FetchRaise(p) =>
               Last(trace'[p]).d = IF call[p].cached # None
                                   THEN call[p].cached[1].d
                                   ELSE EmptyDoc]_vars

\* A call read an expired entry, the cache was cleared while its request was
\* out, the request raised, and the call returned the document it had read.
C21_Witness ==
    \E p \in Threads :
        /\ trace[p] # <<>>
        /\ Last(trace[p]).how = "failed"
        /\ Last(trace[p]).d # EmptyDoc
        /\ FEEDS[Last(trace[p]).label] \in cleared
        /\ FEEDS[Last(trace[p]).label] \notin DOMAIN feedCache

\* C27: the time of a URL's cache entry never decreases: a fetch that began
\* earlier does not replace the entry of a fetch that began later.
C27_EntryTimeNeverDecreases ==
    [][\A u \in DOMAIN feedCache \cap DOMAIN feedCache' :
        feedCache'[u].t >= feedCache[u].t]_vars

\* The items of a list that carry the dt of x, in the order of the list.
WithDtOf(items, x) == SelectSeq(items, LAMBDA y : y.dt = x.dt)

\* C22: among the items of one collect_items call that have the same dt, the
\* items without a dt among themselves included, the result keeps the order
\* in which they were collected: label order, then entry order.
C22_EqualDtKeepsFetchOrder ==
    \A p \in Threads : HasReturned(p) =>
        \A i \in 1..Len(ret[p].items) :
            WithDtOf(ret[p].items, ret[p].items[i])
                = WithDtOf(QueryFilter(call[p].items, call[p].query), ret[p].items[i])

\* A call returned two items of one dt from different feeds, after the sort
\* had moved an item.
C22_Witness ==
    \E p \in Threads :
        /\ HasReturned(p)
        /\ ret[p].items # QueryFilter(call[p].items, call[p].query)
        /\ \E i, j \in 1..Len(ret[p].items) :
              /\ i < j
              /\ ret[p].items[i].dt # None
              /\ ret[p].items[i].dt = ret[p].items[j].dt
              /\ ret[p].items[i].source_label # ret[p].items[j].source_label

\* The item was made from the feed entry e.
MadeFrom(it, e) ==
    /\ it.source_label # "rtl_direct"
    /\ ValidEntry(e)
    /\ Strip(e.title) = it.title /\ Strip(e.link) = it.link

\* C23: the dt of an item made from an entry with a structured published
\* time is that time, read as UTC, whatever the UTC offset of the host.
C23_DtIsPublishedUtc ==
    \A p \in Threads : HasReturned(p) =>
        \A i \in 1..Len(ret[p].items), e \in NosEntries \cup NuEntries :
            (MadeFrom(ret[p].items[i], e) /\ "published_parsed" \in DOMAIN e)
                => ret[p].items[i].dt = Some(e.published_parsed)

\* C24: an item made from an entry with a structured updated time and no
\* published time has a dt; the dt is absent only when the entry has neither.
C24_UpdatedTimeIsUsed ==
    \A p \in Threads : HasReturned(p) =>
        \A i \in 1..Len(ret[p].items), e \in NosEntries \cup NuEntries :
            (MadeFrom(ret[p].items[i], e)
                    /\ ("published_parsed" \in DOMAIN e \/ "updated_parsed" \in DOMAIN e))
                => ret[p].items[i].dt # None

RelatedOf(p) == shown[p].related[1]

HasRelated(p) == ArtikelShown(p) /\ shown[p].related # None

\* The words of at least four characters two titles share.
SharedTokens(a, b) ==
    {Words(a)[i] : i \in 1..Len(Words(a))} \cap {Words(b)[i] : i \in 1..Len(Words(b))}

\* C25: every related item shares at least two words of four or more
\* characters with the title of the article.
C25_AtLeastTwoSharedTokens ==
    \A p \in Threads : HasRelated(p) =>
        \A i \in 1..Len(RelatedOf(p)) :
            Cardinality(SharedTokens(shown[p].title, RelatedOf(p)[i].title)) >= 2

\* C26: the related items come by score, highest first, and items of one
\* score come newest first.
C26_TiesByRecency ==
    \A p \in Threads : HasRelated(p) =>
        \A i, j \in 1..Len(RelatedOf(p)) : i < j =>
            LET si == Score(RelatedOf(p)[i], Keyset(shown[p].title))
                sj == Score(RelatedOf(p)[j], Keyset(shown[p].title))
            IN  /\ si >= sj
                /\ si = sj => SortKey(RelatedOf(p)[i]) >= SortKey(RelatedOf(p)[j])

\* C28: two items that differ in link or in title have different ids, and
\* the item opened by the id of a card is the item of that card.
C28_IdTellsItemsApart ==
    \A p \in Threads : shown[p].kind \in {"lijst", "open"} =>
        /\ \A i, j \in 1..Len(shown[p].items) :
               <<shown[p].items[i].link, shown[p].items[i].title>>
                       # <<shown[p].items[j].link, shown[p].items[j].title>>
                   => item_id(shown[p].items[i]) # item_id(shown[p].items[j])
        /\ shown[p].kind = "open" => shown[p].hit = shown[p].clicked

\* C29: with APP_PASSWORD configured, no page renders items for a session
\* whose kbm_ok is not true; kbm_ok becomes true only on "Inloggen" with the
\* configured password typed; and once true it stays true.
C29_NoItemsBeforeLogin ==
    [][\A p \in Threads :
        Strip(env.APP_PASSWORD) # "" =>
            /\ (shown'[p].kind = "pagina" /\ shown'[p].items_rendered)
                    => kbm_ok'[p] = Some(TRUE)
            /\ kbm_ok[p] = Some(TRUE) => kbm_ok'[p] = Some(TRUE)
            /\ (kbm_ok[p] # Some(TRUE) /\ kbm_ok'[p] = Some(TRUE))
                    => /\ shown'[p].clicked
                       /\ shown'[p].inp = Strip(env.APP_PASSWORD)]_vars

\* C30: on the OV Info page with a stop picked and the auto-refresh toggle
\* on, a script run leads to the board being rendered, unless the visitor
\* switches the toggle off.
C30_AutoRefreshShowsBoard ==
    \A p \in Threads :
        (shown[p].kind = "ov" /\ shown[p].auto_refresh /\ shown[p].at = "top")
            ~> (shown[p].kind = "ov" /\ (shown[p].at = "board" \/ ~shown[p].auto_refresh))

====
